---------------------------- MODULE Spec2Model ----------------------------
(***************************************************************************)
(* Shadow Legends (src/Videojuego.py): the game-flow state machine         *)
(* (Game.change_state and the seven State classes), the turn-based combat  *)
(* of CombateState, and the entity arithmetic of Personaje / Jugador /     *)
(* Enemigo / Objeto.                                                       *)
(*                                                                         *)
(* Game.run handles the pending events one by one and then calls update    *)
(* once per frame, all on one thread: every handle_event call and every    *)
(* update call is one atomic action here, interleaved freely.              *)
(*                                                                         *)
(* Left out (presentation only, never read by the logic below): sprites,   *)
(* fonts, camera, particles, hit_flash_timer, the menu title animation.    *)
(* Button.is_hovered is folded into the click inputs: a click action is a  *)
(* MOUSEBUTTONDOWN on a button that is hovered.  World positions are       *)
(* folded into the set of enemies whose rect overlaps the player's rect    *)
(* at a tick, an input of the exploration tick; the movement keys          *)
(* (JugandoState.keys) only drive those positions and are left out too.    *)
(* pygame.QUIT, which ends Game.run in any state, is a behaviour that      *)
(* stops: it adds no state.  criticos counts the critical draws of a run,   *)
(* so that the guards can bound them.                                      *)
(***************************************************************************)
EXTENDS Integers, Sequences, FiniteSets, TLC

VARIABLES
    running,         \* Game.running
    estado,          \* Game.current_state, by its GameState value
    jugador,         \* Game.jugador (NoJugador models None)
    enemigo,         \* the Enemigo objects ever created, by identity 1..n
    roster,          \* JugandoState.enemigos: identities, in list order
    mundo,           \* hasattr(JugandoState, 'camera')
    enemigo_actual,  \* Game.enemigo_actual: an identity, 0 models None
    creacion,        \* fields of CreacionPersonajeState
    combate,         \* fields of CombateState
    criticos,        \* critical hits drawn so far (random.random() < 0.1)
    dejado,          \* JugandoState.enemigos and the enemies as they were
                     \* when JugandoState was last left
    ult              \* the calls made by the last handler: the entity call
                     \* with its random draw and return value, the enemies
                     \* whose rect the tick found on the player's, and the
                     \* enter/exit hooks in call order

vars == <<running, estado, jugador, enemigo, roster, mundo,
          enemigo_actual, creacion, combate, criticos, dejado, ult>>

---------------------------------------------------------------------------
(* Bounds of the model *)

\* enemies generated by _generar_enemigos (the code generates 5)
NumEnemigos == 2
\* Jugador objects created over a run (character creations)
MaxJugadores == 2
\* characters typed into the name field (the code stops at 15)
MaxNombre == 1
\* critical hits drawn over a run
MaxCriticos == 1
\* entity harness (SpecPersonaje): ranges of the inputs
MaxHpPrueba == 6
MaxDefPrueba == 5
MaxDanoPrueba == 6
MaxCuraPrueba == 3
MaxNivelPrueba == 2

\* Mision: the largest count of a requirement, and the value at which a
\* progress counter stops
MaxCantidad == 2
MaxProgreso == 3

(* Program constants *)

\* Timer(0.5): Timer.update compares elapsed ms / 1000 with duration
TimerDuracionMs == 500
\* Jugador.__init__: self.oro = 100
OroInicial == 100
\* CreacionPersonajeState.handle_event: for _ in range(2)
PocionesIniciales == 2
\* CreacionPersonajeState.handle_event: len(self.nombre) < 15
NombreMax == 15

\* milliseconds of wall clock between two samples of the timer
DeltasMs == {250, 500}

Max(a, b) == IF a >= b THEN a ELSE b
Min(a, b) == IF a <= b THEN a ELSE b

---------------------------------------------------------------------------
(* Data tables *)

\* class GameState(Enum): the declared tags
GameState == {"menu", "creacion", "jugando", "combate", "inventario",
              "pausa", "gameover", "victoria"}

\* Game.states: the GameState values that have a State object
GameStates == {"menu", "creacion", "jugando", "combate", "inventario",
               "pausa", "gameover"}

\* Jugador.CLASES
CLASES == [Guerrero |-> [hp |-> 120, atk |-> 15, defensa |-> 10],
           Mago     |-> [hp |-> 80,  atk |-> 20, defensa |-> 5],
           Arquero  |-> [hp |-> 100, atk |-> 18, defensa |-> 7]]

NombresClase == DOMAIN CLASES

\* JugandoState._generar_enemigos: enemigos_data
enemigos_data ==
    << [nombre |-> "Lobo Salvaje", hp |-> 40, atk |-> 10, defensa |-> 2,
        tipo |-> "bestia", recompensa |-> [oro |-> 20, experiencia |-> 50]],
       [nombre |-> "Bandido", hp |-> 60, atk |-> 15, defensa |-> 5,
        tipo |-> "humano", recompensa |-> [oro |-> 40, experiencia |-> 80]] >>

\* Objeto("Poción de Vida", "Restaura 20 HP", "consumible", 50, 20, ...)
\* (id tells the instances apart: list.remove compares by identity)
PocionDeVida == [id |-> 1, nombre |-> "Pocion de Vida", tipo |-> "consumible",
                 valor |-> 50, modificador |-> 20]

\* Objeto.usar: "vida" in nombre.lower() or "poción" in nombre.lower(),
\* over the names the model uses
NombreCura(nombre) == nombre \in {"Pocion de Vida", "Elixir de vida"}

---------------------------------------------------------------------------
(* Personaje *)

\* Personaje.__init__ (+ Jugador.__init__): the fields the logic reads.
\* muertes counts the calls of morir() on the object (its printed line).
NuevoJugador(id, clase) ==
    [id |-> id, clase |-> clase,
     hp |-> CLASES[clase].hp, hp_max |-> CLASES[clase].hp,
     atk |-> CLASES[clase].atk, defensa |-> CLASES[clase].defensa,
     nivel |-> 1, experiencia |-> 0, vivo |-> TRUE,
     oro |-> OroInicial, inventario |-> << >>, misiones |-> << >>,
     muertes |-> 0]

\* Game.jugador = None
NoJugador ==
    [id |-> 0, clase |-> "None", hp |-> 0, hp_max |-> 0, atk |-> 0,
     defensa |-> 0, nivel |-> 0, experiencia |-> 0, vivo |-> FALSE,
     oro |-> 0, inventario |-> << >>, misiones |-> << >>, muertes |-> 0]

\* Personaje.__init__ + Enemigo.__init__.  premios counts the calls of
\* soltar_recompensa on the object.
NuevoEnemigo(d) ==
    [nombre |-> d.nombre, hp |-> d.hp, hp_max |-> d.hp, atk |-> d.atk,
     defensa |-> d.defensa, nivel |-> 1, experiencia |-> 0, vivo |-> TRUE,
     tipo |-> d.tipo, recompensa |-> d.recompensa,
     muertes |-> 0, premios |-> 0]

\* Personaje.morir: prints the defeat line
Morir(p) == [p EXCEPT !.muertes = @ + 1]

\* recibir_dano that takes nothing
DanoRealNulo(p, dano) == 0

\* recibir_dano with the defence subtracted whole
DanoRealSinMitad(p, dano) == Max(1, dano - p.defensa)

\* recibir_dano without the floor of 1
DanoRealSinPiso(p, dano) == Max(0, dano - (p.defensa \div 2))

\* Personaje.recibir_dano: dano_real
DanoReal(p, dano) == Max(1, dano - (p.defensa \div 2))

\* recibir_dano that never clears vivo
RecibirDanoSinMuerte(p, dano) ==
    [p EXCEPT !.hp = Max(0, p.hp - DanoReal(p, dano))]

\* recibir_dano whose death test is hp == 0 alone
RecibirDanoMuereOtraVez(p, dano) ==
    LET q == [p EXCEPT !.hp = Max(0, p.hp - DanoReal(p, dano))]
    IN  IF q.hp = 0 THEN Morir([q EXCEPT !.vivo = FALSE]) ELSE q

\* Personaje.recibir_dano: the object after the call
RecibirDano(p, dano) ==
    LET q == [p EXCEPT !.hp = Max(0, p.hp - DanoReal(p, dano))]
    IN  IF q.hp = 0 /\ q.vivo
        THEN Morir([q EXCEPT !.vivo = FALSE])
        ELSE q

\* curarse without the cap at hp_max
CurarseSinTope(p, cantidad) == [p EXCEPT !.hp = p.hp + cantidad]

\* curarse that sets vivo again once hp is positive
CurarseRevive(p, cantidad) ==
    [p EXCEPT !.hp = Min(p.hp_max, p.hp + cantidad),
              !.vivo = Min(p.hp_max, p.hp + cantidad) > 0]

\* Personaje.curarse
Curarse(p, cantidad) == [p EXCEPT !.hp = Min(p.hp_max, p.hp + cantidad)]

\* subir_nivel that leaves hp where it was
JugadorSubirNivelSinCura(p) ==
    [p EXCEPT !.nivel = @ + 1, !.hp_max = @ + 10,
              !.atk = @ + 2, !.defensa = @ + 1]

\* Jugador.subir_nivel
JugadorSubirNivel(p) ==
    [p EXCEPT !.nivel = @ + 1, !.hp_max = @ + 10, !.hp = p.hp_max + 10,
              !.atk = @ + 2, !.defensa = @ + 1]

\* Enemigo.subir_nivel: pass
EnemigoSubirNivel(e) == e

\* Jugador.atacar: the raw damage handed to recibir_dano
JugadorDano(p, critico) == IF critico THEN p.atk * 2 ELSE p.atk

\* Enemigo.atacar: the raw damage handed to recibir_dano
EnemigoDano(e, critico) == IF critico THEN e.atk * 2 ELSE e.atk

\* soltar_recompensa that adds the gold twice
SoltarRecompensaDoble(e, p) ==
    [p EXCEPT !.experiencia = @ + e.recompensa.experiencia,
              !.oro = @ + 2 * e.recompensa.oro]

\* Enemigo.soltar_recompensa: the player after the call
SoltarRecompensa(e, p) ==
    [p EXCEPT !.experiencia = @ + e.recompensa.experiencia,
              !.oro = @ + e.recompensa.oro]

\* usar that looks at the name alone
UsarAplicaSinTipo(obj) == NombreCura(obj.nombre)

\* Objeto.usar: whether the effect applies (the return value)
UsarAplica(obj) == obj.tipo = "consumible" /\ NombreCura(obj.nombre)

\* Objeto.usar: the character after the call
Usar(obj, p) == IF UsarAplica(obj) THEN Curarse(p, obj.modificador) ELSE p

---------------------------------------------------------------------------
(* Timer.  elapsed is pygame.time.get_ticks() - start_time while the timer *)
(* is active; only its comparison with the duration is ever read.          *)

\* Timer.__init__
TimerNuevo == [active |-> FALSE, elapsed |-> 0]

\* Timer.start
TimerStart(t) == [active |-> TRUE, elapsed |-> 0]

\* Timer.update: the return value, ms after the previous sample
TimerTermina(t, ms) == t.active /\ t.elapsed + ms >= TimerDuracionMs

\* Timer.update: the timer after the call
TimerUpdate(t, ms) ==
    IF ~t.active THEN t
    ELSE IF TimerTermina(t, ms) THEN [active |-> FALSE, elapsed |-> 0]
    ELSE [t EXCEPT !.elapsed = @ + ms]

---------------------------------------------------------------------------
(* State objects *)

\* no entity call made by the handler
NoLlamada == [op |-> "ninguna", critico |-> FALSE, dano |-> 0, ret |-> 0,
              toca |-> {}, hooks |-> << >>, args |-> << >>]

\* change_state that enters the new state before leaving the old one
ChangeStateEnterPrimero(viejo, nuevo) ==
    <<[hook |-> "enter", de |-> nuevo]>> \o
    (IF viejo # "None" THEN <<[hook |-> "exit", de |-> viejo]>> ELSE << >>)

\* Game.change_state: the hooks it calls, in call order (viejo is
\* current_state before the call, "None" during Game.__init__)
ChangeState(viejo, nuevo) ==
    (IF viejo # "None" THEN <<[hook |-> "exit", de |-> viejo]>> ELSE << >>)
    \o <<[hook |-> "enter", de |-> nuevo]>>

\* a handler whose only call is change_state(nuevo)
Transicion(nuevo) == [NoLlamada EXCEPT !.hooks = ChangeState(estado, nuevo)]

\* nothing recorded: JugandoState is active, or was never left
NoDejado == [roster |-> << >>, enemigo |-> << >>]

\* CombateState.mensaje = ""
SinMensaje == [texto |-> "", dano |-> 0, critico |-> FALSE]

\* CombateState before its first enter(): the fields do not exist yet
CombateSinEntrar ==
    [turno_jugador |-> FALSE, animando |-> FALSE, timer |-> TimerNuevo,
     mensaje |-> SinMensaje, resultado |-> "None"]

\* enter that leaves the first turn to the enemy
CombateEnterTurnoEnemigo ==
    [turno_jugador |-> FALSE, animando |-> FALSE, timer |-> TimerNuevo,
     mensaje |-> SinMensaje, resultado |-> "None"]

\* CombateState.enter
CombateEnter ==
    [turno_jugador |-> TRUE, animando |-> FALSE, timer |-> TimerNuevo,
     mensaje |-> SinMensaje, resultado |-> "None"]

\* CreacionPersonajeState before its first enter()
CreacionSinEntrar == [nombre |-> 0, clase |-> "None", input_active |-> FALSE]

\* CreacionPersonajeState.enter: nombre is kept by its length
CreacionEnter == [nombre |-> 0, clase |-> "None", input_active |-> TRUE]

\* enter that generates the enemies for every new character
JugandoEnterPorJugador ==
    /\ mundo' = TRUE
    /\ IF ~mundo \/ estado = "creacion"
       THEN \E tipos \in [1..NumEnemigos -> 1..Len(enemigos_data)] :
               /\ enemigo' = [i \in 1..NumEnemigos |->
                                 NuevoEnemigo(enemigos_data[tipos[i]])]
               /\ roster' = [i \in 1..NumEnemigos |-> i]
       ELSE UNCHANGED <<enemigo, roster>>

\* enter that generates the enemies on every entry
JugandoEnterRegenera ==
    /\ mundo' = TRUE
    /\ \E tipos \in [1..NumEnemigos -> 1..Len(enemigos_data)] :
          /\ enemigo' = [i \in 1..NumEnemigos |->
                            NuevoEnemigo(enemigos_data[tipos[i]])]
          /\ roster' = [i \in 1..NumEnemigos |-> i]

\* JugandoState.enter: the world is generated on the first entry only
\* (hasattr(self, 'camera'))
JugandoEnter ==
    /\ mundo' = TRUE
    /\ IF ~mundo
       THEN \E tipos \in [1..NumEnemigos -> 1..Len(enemigos_data)] :
               /\ enemigo' = [i \in 1..NumEnemigos |->
                                 NuevoEnemigo(enemigos_data[tipos[i]])]
               /\ roster' = [i \in 1..NumEnemigos |-> i]
       ELSE UNCHANGED <<enemigo, roster>>

\* an exit that leaves Game.enemigo_actual as it is
SalirEstadoSinLimpiar == enemigo_actual

\* CombateState.exit clears Game.enemigo_actual; every other exit() is pass
SalirEstado == IF estado = "combate" THEN 0 ELSE enemigo_actual

Init ==
    /\ running = TRUE
    /\ estado = "menu"
    /\ jugador = NoJugador
    /\ enemigo = << >>
    /\ roster = << >>
    /\ mundo = FALSE
    /\ enemigo_actual = 0
    /\ creacion = CreacionSinEntrar
    /\ combate = CombateSinEntrar
    /\ criticos = 0
    /\ dejado = NoDejado
    /\ ult = [NoLlamada EXCEPT !.hooks = ChangeState("None", "menu")]

---------------------------------------------------------------------------
(* MenuState.handle_event *)

MenuNuevoJuego ==
    /\ running /\ estado = "menu"
    /\ estado' = "creacion"
    /\ enemigo_actual' = SalirEstado
    /\ creacion' = CreacionEnter
    /\ ult' = Transicion("creacion")
    /\ UNCHANGED <<running, criticos, jugador, enemigo, roster, mundo, combate,
                   dejado>>

MenuSalir ==
    /\ running /\ estado = "menu"
    /\ running' = FALSE
    /\ ult' = NoLlamada
    /\ UNCHANGED <<criticos, estado, jugador, enemigo, roster, mundo,
                   enemigo_actual, creacion, combate, dejado>>

(* CreacionPersonajeState.handle_event *)

CreacionTecla ==
    /\ running /\ estado = "creacion"
    /\ creacion.input_active
    /\ creacion.nombre < NombreMax /\ creacion.nombre < MaxNombre
    /\ creacion' = [creacion EXCEPT !.nombre = @ + 1]
    /\ ult' = NoLlamada
    /\ UNCHANGED <<running, criticos, estado, jugador, enemigo, roster, mundo,
                   enemigo_actual, combate, dejado>>

CreacionBackspace ==
    /\ running /\ estado = "creacion"
    /\ creacion.input_active
    /\ creacion' = [creacion EXCEPT !.nombre = Max(0, @ - 1)]
    /\ ult' = NoLlamada
    /\ UNCHANGED <<running, criticos, estado, jugador, enemigo, roster, mundo,
                   enemigo_actual, combate, dejado>>

CreacionReturn ==
    /\ running /\ estado = "creacion"
    /\ creacion.input_active
    /\ creacion' = [creacion EXCEPT !.input_active = FALSE]
    /\ ult' = NoLlamada
    /\ UNCHANGED <<running, criticos, estado, jugador, enemigo, roster, mundo,
                   enemigo_actual, combate, dejado>>

CreacionClase(c) ==
    /\ running /\ estado = "creacion"
    /\ creacion' = [creacion EXCEPT !.clase = c]
    /\ ult' = NoLlamada
    /\ UNCHANGED <<running, criticos, estado, jugador, enemigo, roster, mundo,
                   enemigo_actual, combate, dejado>>

\* the Jugador the confirm button creates, with its initial potions
JugadorCreado(id, clase) ==
    [NuevoJugador(id, clase) EXCEPT
        !.inventario = [i \in 1..PocionesIniciales |->
                           [PocionDeVida EXCEPT !.id = i]]]

\* a confirmation that asks for the class alone
PuedeConfirmarSinNombre(c) == c.clase # "None"

\* CreacionPersonajeState.handle_event: "if self.nombre and
\* self.clase_seleccionada"
PuedeConfirmar(c) == c.nombre > 0 /\ c.clase # "None"

CreacionConfirmar ==
    /\ running /\ estado = "creacion"
    /\ jugador.id < MaxJugadores
    /\ IF PuedeConfirmar(creacion)
       THEN /\ jugador' = JugadorCreado(jugador.id + 1, creacion.clase)
            /\ estado' = "jugando"
            /\ enemigo_actual' = SalirEstado
            /\ JugandoEnter
            /\ dejado' = NoDejado
            /\ ult' = Transicion("jugando")
       ELSE /\ ult' = NoLlamada
            /\ UNCHANGED <<jugador, estado, enemigo_actual, enemigo, roster,
                           mundo, dejado>>
    /\ UNCHANGED <<running, criticos, creacion, combate>>

---------------------------------------------------------------------------
(* JugandoState *)

\* a remove that leaves the list as it is
QuitarNada(lista, x) == lista

\* list.remove(x): the list without its first x
Quitar(lista, x) ==
    LET i == CHOOSE k \in 1..Len(lista) :
                 lista[k] = x /\ \A j \in 1..(k - 1) : lista[j] # x
    IN  SubSeq(lista, 1, i - 1) \o SubSeq(lista, i + 1, Len(lista))

\* a collision test with the answer inverted
ColisionaOtro(e, toca) == e \notin toca

\* a collision test that always succeeds
ColisionaSiempre(e, toca) == TRUE

\* jugador.rect.colliderect(enemigo.rect)
Colisiona(e, toca) == e \in toca

\* a liveness test that takes every enemy for alive
VivoSiempre(e) == TRUE

\* JugandoState.update: "if not enemigo.vivo", read as enemigo.vivo
Vivo(e) == enemigo[e].vivo

\* JugandoState.update: the loop over self.enemigos[:].  pend is the rest
\* of the copy, lista the live list, toca the enemies whose rect collides
\* with the player's.  A dead enemy is removed, the first live one that
\* collides ends the loop (encuentro), 0 when none does.
RECURSIVE Recorrer(_, _, _)
Recorrer(pend, lista, toca) ==
    IF pend = << >> THEN [roster |-> lista, encuentro |-> 0]
    ELSE LET e == Head(pend)
         IN  IF ~Vivo(e)
             THEN Recorrer(Tail(pend), Quitar(lista, e), toca)
             ELSE IF Colisiona(e, toca)
             THEN [roster |-> lista, encuentro |-> e]
             ELSE Recorrer(Tail(pend), lista, toca)

\* the identities in a list
Elementos(lista) == {lista[i] : i \in 1..Len(lista)}

\* JugandoState.update
JugandoUpdate(toca) ==
    /\ running /\ estado = "jugando"
    /\ IF jugador.id = 0
       THEN /\ ult' = NoLlamada
            /\ UNCHANGED <<estado, roster, enemigo_actual, combate, dejado>>
       ELSE LET r == Recorrer(roster, roster, toca)
            IN  /\ roster' = r.roster
                /\ IF r.encuentro # 0
                   THEN /\ estado' = "combate"
                        /\ enemigo_actual' = r.encuentro
                        /\ combate' = CombateEnter
                        /\ dejado' = [roster |-> r.roster,
                                      enemigo |-> enemigo]
                        /\ ult' = [Transicion("combate") EXCEPT
                                      !.toca = toca]
                   ELSE /\ ult' = [NoLlamada EXCEPT !.toca = toca]
                        /\ UNCHANGED <<estado, enemigo_actual, combate,
                                       dejado>>
    /\ UNCHANGED <<running, criticos, jugador, enemigo, mundo, creacion>>

\* JugandoState.handle_event: K_ESCAPE
JugandoEscape ==
    /\ running /\ estado = "jugando"
    /\ estado' = "pausa"
    /\ enemigo_actual' = SalirEstado
    /\ dejado' = [roster |-> roster, enemigo |-> enemigo]
    /\ ult' = Transicion("pausa")
    /\ UNCHANGED <<running, criticos, jugador, enemigo, roster, mundo,
                   creacion, combate>>

\* JugandoState.handle_event: K_i
JugandoInventario ==
    /\ running /\ estado = "jugando"
    /\ estado' = "inventario"
    /\ enemigo_actual' = SalirEstado
    /\ dejado' = [roster |-> roster, enemigo |-> enemigo]
    /\ ult' = Transicion("inventario")
    /\ UNCHANGED <<running, criticos, jugador, enemigo, roster, mundo,
                   creacion, combate>>

---------------------------------------------------------------------------
(* CombateState *)

\* a victory without the level check
JugadorTrasVictoriaSinNivel(e, p) == SoltarRecompensa(e, p)

\* the level check keeping the experience above the threshold
JugadorTrasVictoriaResto(e, p) ==
    LET q == SoltarRecompensa(e, p)
    IN  IF q.experiencia >= q.nivel * 100
        THEN [JugadorSubirNivel(q) EXCEPT
                 !.experiencia = q.experiencia - q.nivel * 100]
        ELSE q

\* CombateState.update, the branch taken when the timer ends with the
\* enemy dead: the player after the reward and the level check
JugadorTrasVictoria(e, p) ==
    LET q == SoltarRecompensa(e, p)
    IN  IF q.experiencia >= q.nivel * 100
        THEN [JugadorSubirNivel(q) EXCEPT !.experiencia = 0]
        ELSE q

\* the outcome test that never looks at the player
ResultadoFinSinDerrota(p, e) == IF ~e.vivo THEN "victoria" ELSE "None"

\* CombateState.update, "Verificar fin de combate": the outcome the
\* first two branches set when the timer ends
ResultadoFin(p, e) ==
    IF ~p.vivo THEN "derrota"
    ELSE IF ~e.vivo THEN "victoria"
    ELSE "None"

\* an enemy's turn that starts no delay
TurnoEnemigoSinAnimar(c, dano) ==
    [c EXCEPT !.mensaje = [texto |-> "ataque_enemigo", dano |-> dano,
                           critico |-> FALSE]]

\* CombateState._turno_enemigo: the combat fields after the enemy's attack
\* that realized dano
TurnoEnemigo(c, dano) ==
    [c EXCEPT !.mensaje = [texto |-> "ataque_enemigo", dano |-> dano,
                           critico |-> FALSE],
              !.animando = TRUE,
              !.timer = TimerStart(c.timer)]

\* CombateState.update
CombateUpdate(ms) ==
    /\ running /\ estado = "combate"
    /\ IF ~combate.animando
       THEN /\ ult' = NoLlamada
            /\ UNCHANGED <<jugador, enemigo, combate, criticos>>
       ELSE IF ~TimerTermina(combate.timer, ms)
       THEN /\ combate' = [combate EXCEPT
                              !.timer = TimerUpdate(combate.timer, ms)]
            /\ ult' = NoLlamada
            /\ UNCHANGED <<jugador, enemigo, criticos>>
       ELSE LET c == [combate EXCEPT
                         !.animando = FALSE,
                         !.timer = TimerUpdate(combate.timer, ms)]
                e == enemigo[enemigo_actual]
                fin == ResultadoFin(jugador, e)
            IN  IF fin = "derrota"
                THEN /\ combate' = [c EXCEPT !.resultado = fin]
                     /\ ult' = NoLlamada
                     /\ UNCHANGED <<jugador, enemigo, criticos>>
                ELSE IF fin = "victoria"
                THEN /\ combate' = [c EXCEPT !.resultado = fin]
                     /\ jugador' = JugadorTrasVictoria(e, jugador)
                     /\ enemigo' = [enemigo EXCEPT
                                       ![enemigo_actual].premios = @ + 1]
                     /\ ult' = [NoLlamada EXCEPT !.op = "soltar_recompensa"]
                     /\ UNCHANGED criticos
                ELSE IF c.turno_jugador /\ e.vivo
                THEN \E critico \in BOOLEAN :
                        LET dano == EnemigoDano(e, critico)
                        IN  /\ critico => criticos < MaxCriticos
                            /\ criticos' = criticos + IF critico THEN 1 ELSE 0
                            /\ jugador' = RecibirDano(jugador, dano)
                            /\ combate' =
                                 TurnoEnemigo(
                                    [c EXCEPT !.turno_jugador = FALSE],
                                    DanoReal(jugador, dano))
                            /\ ult' = [NoLlamada EXCEPT
                                          !.op = "enemigo_atacar",
                                          !.critico = critico,
                                          !.dano = dano,
                                          !.ret = DanoReal(jugador, dano)]
                            /\ UNCHANGED enemigo
                ELSE /\ combate' = [c EXCEPT !.turno_jugador = TRUE]
                     /\ ult' = NoLlamada
                     /\ UNCHANGED <<jugador, enemigo, criticos>>
    /\ UNCHANGED <<running, estado, roster, mundo, enemigo_actual,
                   creacion, dejado>>

\* an outcome test that never sees the outcome
TerminadoNunca(c) == FALSE

\* CombateState.handle_event: "if self.resultado"
Terminado(c) == c.resultado # "None"

\* an input test that never blocks
BloqueadoNunca(c) == FALSE

\* an input test that looks at the turn alone
BloqueadoSoloTurno(c) == ~c.turno_jugador

\* CombateState.handle_event: "if not self.turno_jugador or self.animando"
Bloqueado(c) == ~c.turno_jugador \/ c.animando

\* the acknowledgment that goes back to the map after any outcome
DestinoContinuarJugando(resultado) == "jugando"

\* the acknowledgment that sends a victory to the VICTORIA tag
DestinoContinuarVictoria(resultado) ==
    IF resultado = "victoria" THEN "victoria" ELSE "gameover"

\* the acknowledgment that sends a defeat back to the menu
DestinoContinuarMenu(resultado) ==
    IF resultado = "victoria" THEN "jugando" ELSE "menu"

\* the acknowledgment that opens the inventory after a victory
DestinoContinuarInventario(resultado) ==
    IF resultado = "victoria" THEN "inventario" ELSE "gameover"

\* CombateState.handle_event, "if self.resultado": the state the click
\* changes to
DestinoContinuar(resultado) ==
    IF resultado = "victoria" THEN "jugando" ELSE "gameover"

\* CombateState.handle_event: any MOUSEBUTTONDOWN once resultado is set
CombateContinuar ==
    /\ running /\ estado = "combate"
    /\ Terminado(combate)
    /\ enemigo_actual' = SalirEstado
    /\ estado' = DestinoContinuar(combate.resultado)
    /\ IF estado' = "jugando"
       THEN JugandoEnter /\ dejado' = NoDejado
       ELSE UNCHANGED <<enemigo, roster, mundo, dejado>>
    /\ ult' = Transicion(estado')
    /\ UNCHANGED <<running, criticos, jugador, creacion, combate>>

\* CombateState.handle_event: a click on attack_button
CombateAtacar(critico) ==
    /\ running /\ estado = "combate"
    /\ ~Terminado(combate)
    /\ IF Bloqueado(combate)
       THEN /\ ult' = NoLlamada
            /\ UNCHANGED <<enemigo, combate, criticos>>
       ELSE LET e == enemigo[enemigo_actual]
                dano == JugadorDano(jugador, critico)
                real == DanoReal(e, dano)
            IN  /\ critico => criticos < MaxCriticos
                /\ criticos' = criticos + IF critico THEN 1 ELSE 0
                /\ enemigo' = [enemigo EXCEPT
                                  ![enemigo_actual] = RecibirDano(e, dano)]
                /\ combate' =
                     [combate EXCEPT
                        !.mensaje = [texto |-> "ataque_jugador",
                                     dano |-> real,
                                     critico |-> 2 * real >= 3 * jugador.atk],
                        !.animando = TRUE,
                        !.timer = TimerStart(combate.timer)]
                /\ ult' = [NoLlamada EXCEPT
                              !.op = "jugador_atacar", !.critico = critico,
                              !.dano = dano, !.ret = real]
    /\ UNCHANGED <<running, estado, jugador, roster, mundo,
                   enemigo_actual, creacion, dejado>>

\* the index of the last consumable, 0 if none
UltimoConsumible(inv) ==
    IF \E i \in 1..Len(inv) : inv[i].tipo = "consumible"
    THEN CHOOSE i \in 1..Len(inv) :
            /\ inv[i].tipo = "consumible"
            /\ \A j \in (i + 1)..Len(inv) : inv[j].tipo # "consumible"
    ELSE 0

\* CombateState.handle_event: the index of the first consumable, 0 if none
PrimerConsumible(inv) ==
    IF \E i \in 1..Len(inv) : inv[i].tipo = "consumible"
    THEN CHOOSE i \in 1..Len(inv) :
            /\ inv[i].tipo = "consumible"
            /\ \A j \in 1..(i - 1) : inv[j].tipo # "consumible"
    ELSE 0

\* the empty-inventory branch starting the animation delay as a use does
SinObjetosAnimando(c) ==
    [c EXCEPT !.mensaje = [texto |-> "sin_objetos", dano |-> 0,
                           critico |-> FALSE],
              !.animando = TRUE,
              !.timer = TimerStart(c.timer)]

\* CombateState.handle_event, the else of "if self.game.jugador.inventario":
\* the combat fields after the "no items" message
SinObjetos(c) ==
    [c EXCEPT !.mensaje = [texto |-> "sin_objetos", dano |-> 0,
                           critico |-> FALSE]]

\* CombateState.handle_event: a click on item_button
CombateUsarObjeto ==
    /\ running /\ estado = "combate"
    /\ ~Terminado(combate)
    /\ IF Bloqueado(combate)
       THEN /\ ult' = NoLlamada
            /\ UNCHANGED <<jugador, combate>>
       ELSE IF jugador.inventario = << >>
       THEN /\ combate' = SinObjetos(combate)
            /\ ult' = NoLlamada
            /\ UNCHANGED jugador
       ELSE LET inv == jugador.inventario
                i == PrimerConsumible(inv)
            IN  IF i = 0
                THEN /\ ult' = NoLlamada
                     /\ UNCHANGED <<jugador, combate>>
                ELSE /\ jugador' =
                          [Usar(inv[i], jugador) EXCEPT
                             !.inventario = SubSeq(inv, 1, i - 1) \o
                                            SubSeq(inv, i + 1, Len(inv))]
                     /\ combate' =
                          [combate EXCEPT
                             !.mensaje = [texto |-> "usas",
                                          dano |-> inv[i].modificador,
                                          critico |-> FALSE],
                             !.animando = TRUE,
                             !.timer = TimerStart(combate.timer)]
                     /\ ult' = [NoLlamada EXCEPT
                                   !.op = "usar",
                                   !.dano = inv[i].modificador,
                                   !.ret = IF UsarAplica(inv[i])
                                           THEN 1 ELSE 0]
    /\ UNCHANGED <<running, criticos, estado, enemigo, roster, mundo,
                   enemigo_actual, creacion, dejado>>

---------------------------------------------------------------------------
(* InventarioState, PausaState, GameOverState: handle_event *)

\* an inventory that uses up the first item when it is closed
InventarioEscapeUsa ==
    /\ running /\ estado = "inventario"
    /\ estado' = "jugando"
    /\ enemigo_actual' = SalirEstado
    /\ JugandoEnter
    /\ dejado' = NoDejado
    /\ ult' = Transicion("jugando")
    /\ jugador' = [jugador EXCEPT
                      !.inventario = IF @ = << >> THEN @ ELSE Tail(@)]
    /\ UNCHANGED <<running, criticos, creacion, combate>>

InventarioEscape ==
    /\ running /\ estado = "inventario"
    /\ estado' = "jugando"
    /\ enemigo_actual' = SalirEstado
    /\ JugandoEnter
    /\ dejado' = NoDejado
    /\ ult' = Transicion("jugando")
    /\ UNCHANGED <<running, criticos, jugador, creacion, combate>>

\* the Continuar button, or K_ESCAPE
PausaContinuar ==
    /\ running /\ estado = "pausa"
    /\ estado' = "jugando"
    /\ enemigo_actual' = SalirEstado
    /\ JugandoEnter
    /\ dejado' = NoDejado
    /\ ult' = Transicion("jugando")
    /\ UNCHANGED <<running, criticos, jugador, creacion, combate>>

\* the Menu Principal button wired to what Continuar does
PausaMenuContinua == PausaContinuar

PausaMenu ==
    /\ running /\ estado = "pausa"
    /\ estado' = "menu"
    /\ enemigo_actual' = SalirEstado
    /\ ult' = Transicion("menu")
    /\ UNCHANGED <<running, criticos, jugador, enemigo, roster, mundo,
                   creacion, combate, dejado>>

GameOverMenu ==
    /\ running /\ estado = "gameover"
    /\ estado' = "menu"
    /\ enemigo_actual' = SalirEstado
    /\ ult' = Transicion("menu")
    /\ UNCHANGED <<running, criticos, jugador, enemigo, roster, mundo,
                   creacion, combate, dejado>>

---------------------------------------------------------------------------
Next ==
    \/ MenuNuevoJuego
    \/ MenuSalir
    \/ CreacionTecla
    \/ CreacionBackspace
    \/ CreacionReturn
    \/ \E c \in NombresClase : CreacionClase(c)
    \/ CreacionConfirmar
    \/ \E toca \in SUBSET Elementos(roster) : JugandoUpdate(toca)
    \/ JugandoEscape
    \/ JugandoInventario
    \/ \E ms \in DeltasMs : CombateUpdate(ms)
    \/ CombateContinuar
    \/ \E critico \in BOOLEAN : CombateAtacar(critico)
    \/ CombateUsarObjeto
    \/ InventarioEscape
    \/ PausaContinuar
    \/ PausaMenu
    \/ GameOverMenu

Spec == Init /\ [][Next]_vars

\* Game.run calls the current state's update once per pass of its loop, so
\* while CombateState is current its update keeps being called
SpecJusto == Spec /\ WF_vars(\E ms \in DeltasMs : CombateUpdate(ms))

\* the game with a player who never clicks item_button: every handler of
\* Next but that one
NextAtaque ==
    \/ MenuNuevoJuego
    \/ MenuSalir
    \/ CreacionTecla
    \/ CreacionBackspace
    \/ CreacionReturn
    \/ \E c \in NombresClase : CreacionClase(c)
    \/ CreacionConfirmar
    \/ \E toca \in SUBSET Elementos(roster) : JugandoUpdate(toca)
    \/ JugandoEscape
    \/ JugandoInventario
    \/ \E ms \in DeltasMs : CombateUpdate(ms)
    \/ CombateContinuar
    \/ \E critico \in BOOLEAN : CombateAtacar(critico)
    \/ InventarioEscape
    \/ PausaContinuar
    \/ PausaMenu
    \/ GameOverMenu

\* Game.run keeps calling update, and the player keeps clicking
\* attack_button whenever the combat waits for them
SpecAtaque ==
    /\ Init /\ [][NextAtaque]_vars
    /\ WF_vars(\E ms \in DeltasMs : CombateUpdate(ms))
    /\ WF_vars(\E critico \in BOOLEAN : CombateAtacar(critico))

---------------------------------------------------------------------------
(* One Personaje on its own: the object is built with any hp and defensa   *)
(* of the ranges above and then receives any sequence of recibir_dano,     *)
(* curarse and subir_nivel calls.  jugador holds the object, ult the last  *)
(* call with its argument and return value.                                *)

InitPersonaje ==
    /\ running = TRUE
    /\ estado = "menu"
    /\ jugador \in {[NuevoJugador(1, "Guerrero") EXCEPT
                        !.hp = h, !.hp_max = h, !.defensa = f] :
                    h \in 1..MaxHpPrueba, f \in 0..MaxDefPrueba}
    /\ enemigo = << >>
    /\ roster = << >>
    /\ mundo = FALSE
    /\ enemigo_actual = 0
    /\ creacion = CreacionSinEntrar
    /\ combate = CombateSinEntrar
    /\ criticos = 0
    /\ dejado = NoDejado
    /\ ult = NoLlamada

PersonajeRecibirDano(d) ==
    /\ jugador' = RecibirDano(jugador, d)
    /\ ult' = [NoLlamada EXCEPT !.op = "recibir_dano", !.dano = d,
                                !.ret = DanoReal(jugador, d)]
    /\ UNCHANGED <<running, criticos, estado, enemigo, roster, mundo,
                   enemigo_actual, creacion, combate, dejado>>

PersonajeCurarse(c) ==
    /\ jugador' = Curarse(jugador, c)
    /\ ult' = [NoLlamada EXCEPT !.op = "curarse", !.dano = c]
    /\ UNCHANGED <<running, criticos, estado, enemigo, roster, mundo,
                   enemigo_actual, creacion, combate, dejado>>

PersonajeSubirNivel ==
    /\ jugador.nivel < MaxNivelPrueba
    /\ jugador' = JugadorSubirNivel(jugador)
    /\ ult' = [NoLlamada EXCEPT !.op = "subir_nivel"]
    /\ UNCHANGED <<running, criticos, estado, enemigo, roster, mundo,
                   enemigo_actual, creacion, combate, dejado>>

NextPersonaje ==
    \/ \E d \in 0..MaxDanoPrueba : PersonajeRecibirDano(d)
    \/ \E c \in 0..MaxCuraPrueba : PersonajeCurarse(c)
    \/ PersonajeSubirNivel

SpecPersonaje == InitPersonaje /\ [][NextPersonaje]_vars

---------------------------------------------------------------------------
(* The methods of the entities called on their own: one Jugador as above,  *)
(* one Enemigo of either kind, and the Objeto instances of Catalogo.       *)

\* Objeto.__init__: sprite_map's keys are the item kinds
TiposObjeto == {"consumible", "arma", "armadura"}

\* item names, with and without a healing marker
NombresPrueba == {"Pocion de Vida", "Elixir de vida", "Antidoto", "Espada"}

\* the Objeto instances handed to usar
Catalogo ==
    {[id |-> 1, nombre |-> n, tipo |-> t, valor |-> 50, modificador |-> m] :
        n \in NombresPrueba, t \in TiposObjeto, m \in 0..MaxCuraPrueba}
    \cup {PocionDeVida}

InitEntidades ==
    /\ running = TRUE
    /\ estado = "menu"
    /\ jugador \in {[NuevoJugador(1, "Guerrero") EXCEPT
                        !.hp = h, !.hp_max = h, !.defensa = f] :
                    h \in 1..MaxHpPrueba, f \in 0..MaxDefPrueba}
    /\ enemigo \in {<<NuevoEnemigo(enemigos_data[k])>> :
                    k \in 1..Len(enemigos_data)}
    /\ roster = << >>
    /\ mundo = FALSE
    /\ enemigo_actual = 0
    /\ creacion = CreacionSinEntrar
    /\ combate = CombateSinEntrar
    /\ criticos = 0
    /\ dejado = NoDejado
    /\ ult = NoLlamada

\* obj.usar(jugador)
PersonajeUsar(obj) ==
    /\ jugador' = Usar(obj, jugador)
    /\ ult' = [NoLlamada EXCEPT !.op = "usar", !.dano = obj.modificador,
                                !.ret = IF UsarAplica(obj) THEN 1 ELSE 0]
    /\ UNCHANGED <<running, criticos, estado, enemigo, roster, mundo,
                   enemigo_actual, creacion, combate, dejado>>

\* enemigo.subir_nivel()
EnemigoSubeNivel ==
    /\ enemigo' = [enemigo EXCEPT ![1] = EnemigoSubirNivel(@)]
    /\ ult' = [NoLlamada EXCEPT !.op = "enemigo_subir_nivel"]
    /\ UNCHANGED <<running, criticos, estado, jugador, roster, mundo,
                   enemigo_actual, creacion, combate, dejado>>

NextEntidades ==
    \/ \E obj \in Catalogo : PersonajeUsar(obj)
    \/ \E d \in 0..MaxDanoPrueba : PersonajeRecibirDano(d)
    \/ PersonajeSubirNivel
    \/ EnemigoSubeNivel

SpecEntidades == InitEntidades /\ [][NextEntidades]_vars

---------------------------------------------------------------------------
(* Mision.  The program never builds one (Jugador.misiones stays empty),   *)
(* so the class is exercised on its own: a Jugador carries one Mision      *)
(* built from any requisitos of RequisitosPrueba, and actualizar_progreso  *)
(* is called on it with any kind and target of the sets below.             *)

\* Mision.__init__: the kinds progreso is built for
TiposMision == {"enemigos", "objetos"}

\* target names of the requisitos
ObjetivosPrueba == {"Lobo Salvaje", "Pocion de Vida"}

\* the kinds and targets actualizar_progreso is called with: those above,
\* and one of each that no requisitos holds
TiposLlamada == TiposMision \cup {"lugares"}
ObjetivosLlamada == ObjetivosPrueba \cup {"Dragon"}

\* the requisitos handed to Mision(...): a dict of some of the kinds, each
\* a dict of some of the targets with a count; {} and {kind: {}} included
RequisitosPrueba ==
    UNION {[T -> UNION {[O -> 0..MaxCantidad] : O \in SUBSET ObjetivosPrueba}] :
           T \in SUBSET TiposMision}

\* requisitos.get(tipo, {})
RequisitosDe(requisitos, tipo) ==
    IF tipo \in DOMAIN requisitos THEN requisitos[tipo]
    ELSE [o \in {} |-> 0]

\* Mision.__init__
NuevaMision(requisitos) ==
    [requisitos |-> requisitos,
     completada |-> FALSE,
     progreso |-> [t \in TiposMision |->
                     [o \in DOMAIN RequisitosDe(requisitos, t) |-> 0]]]

\* self.progreso[tipo].get(objetivo, 0)
ProgresoDe(m, tipo, objetivo) ==
    IF objetivo \in DOMAIN m.progreso[tipo] THEN m.progreso[tipo][objetivo]
    ELSE 0

\* Mision._verificar_completada: the loops run to their end
Cumplida(m) ==
    \A tipo \in DOMAIN m.requisitos :
        \A objetivo \in DOMAIN m.requisitos[tipo] :
            ~(ProgresoDe(m, tipo, objetivo) < m.requisitos[tipo][objetivo])

\* a verification that flips the flag
VerificarCompletadaAlterna(m) ==
    IF Cumplida(m) THEN [m EXCEPT !.completada = ~@] ELSE m

\* Mision._verificar_completada
VerificarCompletada(m) ==
    IF Cumplida(m) THEN [m EXCEPT !.completada = TRUE] ELSE m

\* Mision.actualizar_progreso: the test of its first line
Cuenta(m, tipo, objetivo) ==
    /\ tipo \in DOMAIN m.progreso
    /\ objetivo \in DOMAIN m.progreso[tipo]

\* an update that counts for every target of the kind
ActualizarProgresoTodos(m, tipo, objetivo) ==
    IF Cuenta(m, tipo, objetivo)
    THEN VerificarCompletada(
             [m EXCEPT !.progreso[tipo] =
                  [o \in DOMAIN m.progreso[tipo] |-> m.progreso[tipo][o] + 1]])
    ELSE m

\* Mision.actualizar_progreso
ActualizarProgreso(m, tipo, objetivo) ==
    IF Cuenta(m, tipo, objetivo)
    THEN VerificarCompletada([m EXCEPT !.progreso[tipo][objetivo] = @ + 1])
    ELSE m

InitMision ==
    /\ running = TRUE
    /\ estado = "menu"
    /\ jugador \in {[NuevoJugador(1, "Guerrero") EXCEPT
                        !.misiones = <<NuevaMision(r)>>] :
                    r \in RequisitosPrueba}
    /\ enemigo = << >>
    /\ roster = << >>
    /\ mundo = FALSE
    /\ enemigo_actual = 0
    /\ creacion = CreacionSinEntrar
    /\ combate = CombateSinEntrar
    /\ criticos = 0
    /\ dejado = NoDejado
    /\ ult = NoLlamada

\* jugador.misiones[0].actualizar_progreso(tipo, objetivo); ret tells
\* whether the call counted.  A counter stops at MaxProgreso.
MisionActualizar(tipo, objetivo) ==
    LET m == jugador.misiones[1] IN
    /\ Cuenta(m, tipo, objetivo) => m.progreso[tipo][objetivo] < MaxProgreso
    /\ jugador' = [jugador EXCEPT
                      !.misiones[1] = ActualizarProgreso(m, tipo, objetivo)]
    /\ ult' = [NoLlamada EXCEPT !.op = "actualizar_progreso",
                                !.args = <<tipo, objetivo>>,
                                !.ret = IF Cuenta(m, tipo, objetivo)
                                        THEN 1 ELSE 0]
    /\ UNCHANGED <<running, criticos, estado, enemigo, roster, mundo,
                   enemigo_actual, creacion, combate, dejado>>

NextMision ==
    \E tipo \in TiposLlamada, objetivo \in ObjetivosLlamada :
        MisionActualizar(tipo, objetivo)

SpecMision == InitMision /\ [][NextMision]_vars

---------------------------------------------------------------------------
(* Properties *)

\* the Enemigo objects that exist
Enemigos == DOMAIN enemigo

\* the combat is waiting for the player's choice
PlayerTurn ==
    /\ estado = "combate"
    /\ combate.turno_jugador /\ ~combate.animando
    /\ combate.resultado = "None"

\* a step of the combat in which the animation delay expires: animando is
\* cleared, or cleared and set again by the enemy's turn
ExpiraPaso ==
    /\ estado = "combate" /\ combate.animando
    /\ \/ ~combate'.animando
       \/ combate.turno_jugador /\ ~combate'.turno_jugador

\* a step of the combat that sets the outcome to victoria
VictoriaPaso ==
    /\ estado = "combate"
    /\ combate.resultado = "None" /\ combate'.resultado = "victoria"

\* C1: in every reachable state the player and every enemy have
\* 0 <= hp <= hp_max.
C1_HpEnRango ==
    /\ jugador.id # 0 => 0 <= jugador.hp /\ jugador.hp <= jugador.hp_max
    /\ \A i \in Enemigos :
          0 <= enemigo[i].hp /\ enemigo[i].hp <= enemigo[i].hp_max

\* C1 witness: every enemy was beaten to hp 0, both potions were used and
\* a level-up refilled the player's hp.
C1_Witness ==
    /\ jugador.id # 0 /\ jugador.nivel = 2
    /\ jugador.hp = jugador.hp_max /\ jugador.inventario = << >>
    /\ Enemigos # {} /\ \A i \in Enemigos : enemigo[i].hp = 0

\* C2: recibir_dano(d) on an entity of defence f returns
\* max(1, d - f // 2) and leaves hp = max(0, hp_before - returned).
C2_RecibirDano ==
    [][ult'.op = "recibir_dano" =>
          /\ ult'.ret = Max(1, ult'.dano - (jugador.defensa \div 2))
          /\ jugador'.hp = Max(0, jugador.hp - ult'.ret)]_vars

\* C2 witness: a call whose raw damage is below half the defence returned
\* the floor, 1, and one hp was lost.
C2_Witness ==
    /\ ult.op = "recibir_dano"
    /\ ult.dano < jugador.defensa \div 2
    /\ ult.ret = 1
    /\ jugador.hp = jugador.hp_max - 1

\* C3: an attack by the player or by the enemy realizes
\* max(1, r - def // 2), r being atk or, on a critical draw, 2 * atk, and
\* def the defender's defence; the defender loses that much hp (not below
\* 0).  A level-1 Guerrero that does not roll a critical against a Lobo
\* Salvaje at hp 40 deals 14 and leaves it at hp 26.
C3_Atacar ==
    [][/\ (ult'.op = "jugador_atacar" /\ PlayerTurn) =>
            LET e == enemigo[enemigo_actual]
                r == IF ult'.critico THEN 2 * jugador.atk ELSE jugador.atk
            IN  /\ ult'.ret = Max(1, r - (e.defensa \div 2))
                /\ enemigo'[enemigo_actual].hp = Max(0, e.hp - ult'.ret)
                /\ combate'.mensaje.dano = ult'.ret
                /\ (/\ jugador.clase = "Guerrero" /\ jugador.nivel = 1
                    /\ ~ult'.critico
                    /\ e.nombre = "Lobo Salvaje" /\ e.hp = 40)
                   => (/\ ult'.ret = 14
                       /\ enemigo'[enemigo_actual].hp = 26)
       /\ (ult'.op = "enemigo_atacar" /\ ExpiraPaso) =>
            LET e == enemigo[enemigo_actual]
                r == IF ult'.critico THEN 2 * e.atk ELSE e.atk
            IN  /\ ult'.ret = Max(1, r - (jugador.defensa \div 2))
                /\ jugador'.hp = Max(0, jugador.hp - ult'.ret)
                /\ combate'.mensaje.dano = ult'.ret]_vars

\* C3 witness: the Guerrero's non-critical hit on a fresh Lobo Salvaje.
C3_Witness ==
    /\ estado = "combate" /\ ult.op = "jugador_atacar" /\ ~ult.critico
    /\ jugador.clase = "Guerrero" /\ jugador.nivel = 1
    /\ enemigo[enemigo_actual].nombre = "Lobo Salvaje"
    /\ ult.ret = 14 /\ enemigo[enemigo_actual].hp = 26

\* C4: in every reachable state the player and every enemy have
\* vivo true exactly when hp > 0.
C4_VivoSiiHp ==
    /\ jugador.id # 0 => (jugador.vivo <=> jugador.hp > 0)
    /\ \A i \in Enemigos : enemigo[i].vivo <=> enemigo[i].hp > 0

\* C4 witness: the player died after having killed an enemy.
C4_Witness ==
    /\ jugador.id # 0 /\ ~jugador.vivo /\ jugador.hp = 0
    /\ \E i \in Enemigos : ~enemigo[i].vivo /\ enemigo[i].hp = 0
    /\ \E i \in Enemigos : enemigo[i].vivo /\ enemigo[i].hp > 0

\* C5: once an entity's vivo is false it is false in every later state,
\* whatever calls (damage, heal, level-up) follow.
C5_MuertoNoRevive == [][~jugador.vivo => ~jugador'.vivo]_vars

\* C5 witness: a dead entity was healed: its hp is positive again and
\* vivo is still false.
C5_Witness == ~jugador.vivo /\ jugador.hp > 0 /\ ult.op = "curarse"

\* C6: morir is called exactly once per entity: at the recibir_dano call
\* that first brings hp to 0, and at no later call.
C6_MuerteUnaVez ==
    /\ [](jugador.muertes <= 1)
    /\ [][jugador'.muertes =
             jugador.muertes +
             (IF /\ ult'.op = "recibir_dano"
                 /\ jugador.vivo /\ jugador'.hp = 0
              THEN 1 ELSE 0)]_vars

\* C6 witness: the last call was recibir_dano and left a dead entity with
\* hp > 0: the call was made on an entity already dead (and healed since),
\* and morir has still been called once.
C6_Witness ==
    /\ ult.op = "recibir_dano"
    /\ ~jugador.vivo /\ jugador.hp > 0 /\ jugador.muertes = 1

\* C7: a combat starts in PlayerTurn; when the delay after a player action
\* expires with both alive the enemy attacks once and the delay starts
\* again; when the delay after the enemy's attack expires with both alive
\* the combat is back in PlayerTurn; the enemy attacks only during the
\* delay that follows a player action.
C7_Turnos ==
    [][/\ (estado # "combate" /\ estado' = "combate") => PlayerTurn'
       /\ (/\ estado = "combate" /\ combate.animando
           /\ combate.turno_jugador /\ ~combate'.animando)
          => combate'.resultado # "None"
       /\ (/\ ExpiraPaso /\ combate.turno_jugador
           /\ jugador.vivo /\ enemigo[enemigo_actual].vivo)
          => /\ ult'.op = "enemigo_atacar"
             /\ jugador'.hp = Max(0, jugador.hp - ult'.ret)
             /\ combate'.animando /\ combate'.timer.active
             /\ combate'.timer.elapsed = 0
             /\ ~combate'.turno_jugador
             /\ enemigo' = enemigo
       /\ (/\ ExpiraPaso /\ ~combate.turno_jugador
           /\ jugador.vivo /\ enemigo[enemigo_actual].vivo)
          => PlayerTurn' /\ jugador' = jugador /\ enemigo' = enemigo
       /\ \/ ult'.op = "enemigo_atacar"
          \/ jugador'.id = jugador.id /\ jugador'.hp < jugador.hp
          => /\ ExpiraPaso /\ combate.turno_jugador
             /\ combate.mensaje.texto \in {"ataque_jugador", "usas"}
             /\ combate'.mensaje.texto = "ataque_enemigo"]_vars

\* C7 witness: the combat is back in PlayerTurn after the enemy's attack.
C7_Witness ==
    /\ PlayerTurn /\ combate.mensaje.texto = "ataque_enemigo"
    /\ jugador.hp < jugador.hp_max

\* C8: when the delay expires the outcome becomes victoria if the current
\* enemy's hp is 0, otherwise derrota if the player's hp is 0, and stays
\* unset when both are alive; the outcome changes at no other step of a
\* combat.
C8_Resultado ==
    [][/\ ExpiraPaso =>
            combate'.resultado =
               IF enemigo[enemigo_actual].hp = 0 THEN "victoria"
               ELSE IF jugador.hp = 0 THEN "derrota"
               ELSE "None"
       /\ (/\ estado = "combate" /\ estado' = "combate"
           /\ combate'.resultado # combate.resultado)
          => ExpiraPaso]_vars

\* C8 witness: the delay expired with the player at hp 0.
C8_Witness ==
    /\ estado = "combate" /\ combate.resultado = "derrota"
    /\ jugador.hp = 0 /\ enemigo[enemigo_actual].hp > 0

\* C9: an enemy's reward is added to the player exactly once, at the
\* expiry that yields victoria over it; the player's gold and experience
\* change at no other step, and no enemy rewards twice.
C9_Recompensa ==
    /\ [](\A i \in Enemigos :
             /\ enemigo[i].premios <= 1
             /\ enemigo[i].premios = 1 => ~enemigo[i].vivo)
    /\ [][/\ VictoriaPaso =>
               LET e == enemigo[enemigo_actual]
               IN  /\ ExpiraPaso
                   /\ e.premios = 0
                   /\ enemigo'[enemigo_actual].premios = 1
                   /\ jugador'.oro = jugador.oro + e.recompensa.oro
                   /\ jugador'.experiencia \in
                         {jugador.experiencia + e.recompensa.experiencia, 0}
          /\ (/\ jugador'.id = jugador.id
              /\ \/ jugador'.oro # jugador.oro
                 \/ jugador'.experiencia # jugador.experiencia)
             => VictoriaPaso
          /\ (\E i \in Enemigos :
                 enemigo'[i].premios # enemigo[i].premios)
             => VictoriaPaso]_vars

\* C9 witness: victoria over the first enemy beaten, its gold added once.
C9_Witness ==
    /\ estado = "combate" /\ combate.resultado = "victoria"
    /\ enemigo[enemigo_actual].premios = 1
    /\ jugador.oro = OroInicial + enemigo[enemigo_actual].recompensa.oro

\* C10: at a victoria the player levels up once, with experience reset to
\* 0, if the experience after the reward is >= nivel * 100, and not at all
\* otherwise; the level changes at no other step.
C10_UnNivel ==
    [][/\ VictoriaPaso =>
            LET acc == jugador.experiencia +
                       enemigo[enemigo_actual].recompensa.experiencia
            IN  IF acc >= jugador.nivel * 100
                THEN /\ jugador'.nivel = jugador.nivel + 1
                     /\ jugador'.experiencia = 0
                ELSE /\ jugador'.nivel = jugador.nivel
                     /\ jugador'.experiencia = acc
       /\ (jugador'.id = jugador.id /\ jugador'.nivel # jugador.nivel)
          => VictoriaPaso]_vars

\* C10 witness: a Lobo Salvaje and a Bandido beaten, 130 experience at
\* level 1: one level gained, experience 0 and not 30.
C10_Witness ==
    /\ estado = "combate" /\ combate.resultado = "victoria"
    /\ jugador.oro = OroInicial + 20 + 40
    /\ jugador.nivel = 2 /\ jugador.experiencia = 0

\* C11: subir_nivel on a player adds 1 to nivel, 10 to hp_max, 2 to atk and
\* 1 to defensa and sets hp to the new hp_max; subir_nivel on an enemy
\* changes nothing.
C11_SubirNivel ==
    [][/\ ult'.op = "subir_nivel" =>
            /\ jugador'.nivel = jugador.nivel + 1
            /\ jugador'.hp_max = jugador.hp_max + 10
            /\ jugador'.atk = jugador.atk + 2
            /\ jugador'.defensa = jugador.defensa + 1
            /\ jugador'.hp = jugador'.hp_max
            /\ jugador'.vivo = jugador.vivo
            /\ jugador'.experiencia = jugador.experiencia
            /\ enemigo' = enemigo
       /\ ult'.op = "enemigo_subir_nivel" =>
            enemigo' = enemigo /\ jugador' = jugador]_vars

\* C11 witness: the player was levelled up once (hp at the new hp_max,
\* atk 2 higher) and subir_nivel was then called on the enemy.
C11_Witness ==
    /\ ult.op = "enemigo_subir_nivel"
    /\ jugador.nivel = 2 /\ jugador.hp = jugador.hp_max
    /\ jugador.hp_max > 10 /\ jugador.atk = CLASES["Guerrero"].atk + 2
    /\ enemigo[1].nivel = 1

\* the inventory holds no consumable
SinConsumibles(inv) == \A i \in 1..Len(inv) : inv[i].tipo # "consumible"

\* C12: a click on Use-Item in PlayerTurn with no consumable in the
\* inventory sets the "no items" message and nothing else: the combat
\* stays in PlayerTurn, the delay timer is not started, and the player,
\* the enemies and the game-flow state are unchanged.
C12_SinObjetos ==
    [][(/\ PlayerTurn /\ CombateUsarObjeto
        /\ SinConsumibles(jugador.inventario))
       => /\ combate'.mensaje.texto = "sin_objetos"
          /\ PlayerTurn'
          /\ combate'.timer = combate.timer /\ ~combate'.timer.active
          /\ jugador' = jugador /\ enemigo' = enemigo
          /\ roster' = roster /\ enemigo_actual' = enemigo_actual
          /\ estado' = estado]_vars

\* C12 witness: both potions are used up, the click was made on the
\* player's turn and the message is up, still in PlayerTurn.
C12_Witness ==
    /\ PlayerTurn /\ combate.mensaje.texto = "sin_objetos"
    /\ jugador.inventario = << >> /\ jugador.vivo
    /\ ~combate.timer.active

\* C13: an accepted Use-Item removes exactly one item of the inventory,
\* the first consumable in list order, the others keeping their order;
\* the inventory of a player changes at no other step.
C13_QuitaPrimero ==
    [][/\ (/\ PlayerTurn /\ CombateUsarObjeto
           /\ ~SinConsumibles(jugador.inventario))
          => LET inv == jugador.inventario
             IN  /\ Len(jugador'.inventario) = Len(inv) - 1
                 /\ \E i \in 1..Len(inv) :
                       /\ inv[i].tipo = "consumible"
                       /\ \A j \in 1..(i - 1) : inv[j].tipo # "consumible"
                       /\ jugador'.inventario =
                            [k \in 1..(Len(inv) - 1) |->
                                IF k < i THEN inv[k] ELSE inv[k + 1]]
                 /\ ult'.op = "usar"
       /\ (/\ jugador'.id = jugador.id
           /\ jugador'.inventario # jugador.inventario)
          => PlayerTurn /\ CombateUsarObjeto]_vars

\* C13 witness: of the two potions the first was used, the second is
\* what the inventory holds.
C13_Witness ==
    /\ estado = "combate" /\ ult.op = "usar"
    /\ jugador.inventario = <<[PocionDeVida EXCEPT !.id = 2]>>

\* C14: usar returns true and heals the target by the item's modificador,
\* up to hp_max, exactly when the item is a consumible whose name has a
\* healing marker; for any other item it returns false and the target is
\* unchanged.
C14_Usar ==
    [][\A obj \in Catalogo :
          (ult'.op = "usar" /\ ult'.dano = obj.modificador
           /\ PersonajeUsar(obj)) =>
             IF /\ obj.tipo = "consumible"
                /\ obj.nombre \in {"Pocion de Vida", "Elixir de vida"}
             THEN /\ ult'.ret = 1
                  /\ jugador' =
                       [jugador EXCEPT
                          !.hp = Min(jugador.hp_max,
                                     jugador.hp + obj.modificador)]
             ELSE ult'.ret = 0 /\ jugador' = jugador]_vars

\* C14 witness: a living, hurt target was healed by an item whose
\* modificador did not reach hp_max.
C14_Witness ==
    /\ ult.op = "usar" /\ ult.ret = 1 /\ ult.dano > 0
    /\ jugador.vivo /\ jugador.hp > ult.dano
    /\ jugador.hp < jugador.hp_max

\* the hooks of one change_state call from state a to state b
Salto(a, b) == <<[hook |-> "exit", de |-> a], [hook |-> "enter", de |-> b]>>

\* C15: the game leaves Combat only with the outcome set and only by the
\* acknowledging click: to Exploring after victoria, to GameOver after
\* derrota; while the outcome is unset no input and no tick leaves Combat.
C15_SalirCombate ==
    [][/\ (estado = "combate" /\ estado' # "combate")
          => /\ CombateContinuar
             /\ combate.resultado \in {"victoria", "derrota"}
             /\ combate.resultado = "victoria" => estado' = "jugando"
             /\ combate.resultado = "derrota" => estado' = "gameover"
       /\ (estado = "combate" /\ combate.resultado = "None")
          => estado' = "combate"]_vars

\* C15 witness: a defeat was acknowledged into GameOver, by a player who
\* had acknowledged a victory before.
C15_Witness ==
    /\ estado = "gameover" /\ ult.hooks = Salto("combate", "gameover")
    /\ ~jugador.vivo /\ jugador.experiencia > 0

\* C16: every transition into Combat is made from Exploring by an update
\* tick in which the player's rect overlaps an enemy of the roster, and
\* when Combat is entered enemigo_actual is that enemy, not None.
C16_EntrarCombate ==
    [][(estado # "combate" /\ estado' = "combate")
       => /\ estado = "jugando"
          /\ \E toca \in SUBSET Elementos(roster) : JugandoUpdate(toca)
          /\ enemigo_actual = 0 /\ enemigo_actual' # 0
          /\ enemigo_actual' \in ult'.toca
          /\ enemigo_actual' \in Elementos(roster)
          /\ enemigo_actual' \in Elementos(roster')
          /\ enemigo[enemigo_actual'].vivo]_vars

\* C16 witness: Combat was entered on a tick in which the player touched
\* the second enemy of the roster and not the first.
C16_Witness ==
    /\ estado = "combate" /\ ult.hooks = Salto("jugando", "combate")
    /\ Len(roster) = 2 /\ ult.toca = {roster[2]}
    /\ enemigo_actual = roster[2]

\* C17: in every reachable state enemigo_actual is not None exactly when
\* the active state is Combat (and it is then an existing enemy).
C17_EnemigoActual ==
    /\ (enemigo_actual # 0) <=> (estado = "combate")
    /\ enemigo_actual # 0 => enemigo_actual \in Enemigos

\* C17 witness: Combat was left for GameOver and the reference is cleared.
C17_Witness ==
    /\ estado = "gameover" /\ enemigo_actual = 0
    /\ ult.hooks = Salto("combate", "gameover")
    /\ \E i \in Enemigos : enemigo[i].hp < enemigo[i].hp_max

\* a step that re-enters Exploring from Combat, Paused or Inventory
Reentrada ==
    estado \in {"combate", "pausa", "inventario"} /\ estado' = "jugando"

\* C18 as stated: on re-entry the roster is the roster that existed when
\* Exploring was last left, same enemies, same hp and alive flags.
C18_Original ==
    [][Reentrada =>
          /\ roster' = dejado.roster
          /\ DOMAIN enemigo' = DOMAIN dejado.enemigo
          /\ \A i \in DOMAIN enemigo' :
                /\ enemigo'[i].hp = dejado.enemigo[i].hp
                /\ enemigo'[i].vivo = dejado.enemigo[i].vivo]_vars

\* C18: re-entering Exploring from Combat, Paused or Inventory never
\* creates or regenerates enemies: the re-entry leaves the roster and
\* every enemy as they are; the roster holds the enemies it held when
\* Exploring was last left, each with the hp and alive flag it had then,
\* except the enemy fought when coming back from Combat, which was alive
\* then and comes back dead, at hp 0.
C18_RosterAlVolver ==
    [][Reentrada =>
          /\ mundo
          /\ roster' = roster /\ enemigo' = enemigo
          /\ roster' = dejado.roster
          /\ DOMAIN enemigo' = DOMAIN dejado.enemigo
          /\ \A i \in DOMAIN enemigo' :
                i # enemigo_actual =>
                   /\ enemigo'[i].hp = dejado.enemigo[i].hp
                   /\ enemigo'[i].vivo = dejado.enemigo[i].vivo
          /\ estado = "combate" =>
                /\ dejado.enemigo[enemigo_actual].vivo
                /\ ~enemigo'[enemigo_actual].vivo
                /\ enemigo'[enemigo_actual].hp = 0]_vars

\* C18 witness: Exploring was re-entered from Combat with the beaten enemy
\* still in the roster, dead, next to one that was never fought.
C18_Witness ==
    /\ estado = "jugando" /\ ult.hooks = Salto("combate", "jugando")
    /\ \E i \in Elementos(roster) : ~enemigo[i].vivo
    /\ \E i \in Elementos(roster) : enemigo[i].hp = enemigo[i].hp_max

\* C19: after start-up exactly one state is active, and every transition
\* calls exit of the old state and then enter of the new one, once each;
\* start-up enters the menu, and a handler that makes no transition calls
\* no hook.
C19_Hooks ==
    /\ ult.hooks = <<[hook |-> "enter", de |-> "menu"]>>
    /\ [](estado \in GameStates)
    /\ [][/\ estado' # estado => ult'.hooks = Salto(estado, estado')
          /\ estado' = estado => ult'.hooks = << >>]_vars

\* C19 witness: the pause was entered from Exploring: exit of jugando,
\* then enter of pausa.
C19_Witness ==
    /\ estado = "pausa"
    /\ ult.hooks = <<[hook |-> "exit", de |-> "jugando"],
                     [hook |-> "enter", de |-> "pausa"]>>

\* C20: the first active state is the menu and every transition of a run
\* is one of menu -> creacion, creacion -> jugando, jugando -> combate,
\* combate -> jugando, jugando -> inventario, inventario -> jugando,
\* jugando -> pausa, pausa -> jugando, combate -> gameover, pausa -> menu,
\* or a transition into menu.
C20_Transiciones ==
    /\ estado = "menu"
    /\ [][estado' # estado =>
             \/ <<estado, estado'>> \in
                   {<<"menu", "creacion">>, <<"creacion", "jugando">>,
                    <<"jugando", "combate">>, <<"combate", "jugando">>,
                    <<"jugando", "inventario">>, <<"inventario", "jugando">>,
                    <<"jugando", "pausa">>, <<"pausa", "jugando">>,
                    <<"combate", "gameover">>, <<"pausa", "menu">>}
             \/ estado' = "menu"]_vars

\* C20 witness: the menu was entered from GameOver, after a walk through
\* creacion, jugando and combate.
C20_Witness ==
    /\ estado = "menu" /\ ult.hooks = Salto("gameover", "menu")
    /\ jugador.id # 0 /\ ~jugador.vivo

\* some input handled in the current state changes the state to the menu
HayNavegacionAMenu == estado # "menu" /\ ENABLED (Next /\ estado' = "menu")

\* C21 as stated: in each of CharacterCreation, Exploring, Combat,
\* Inventory, Paused and GameOver some input transitions directly to
\* MainMenu.
C21_Original ==
    (running /\ estado \in GameStates \ {"menu"}) => HayNavegacionAMenu

\* C21: in Paused and in GameOver an input (the Menu Principal button)
\* transitions directly to MainMenu; CharacterCreation, Exploring, Combat
\* and Inventory have no input that does, and no step enters MainMenu
\* from them.
C21_NavegacionAMenu ==
    /\ [](running =>
            (HayNavegacionAMenu <=> estado \in {"pausa", "gameover"}))
    /\ [][(estado # "menu" /\ estado' = "menu")
            => estado \in {"pausa", "gameover"}]_vars

\* C21 witness: the menu was entered from the pause, by a player who has
\* fought.
C21_Witness ==
    /\ estado = "menu" /\ ult.hooks = Salto("pausa", "menu")
    /\ jugador.id # 0 /\ jugador.hp < jugador.hp_max

\* the position of enemy e in the roster
Pos(e) == CHOOSE i \in 1..Len(roster) : roster[i] = e

\* the roster positions of the living enemies that toca holds
VivosTocados(toca) ==
    {i \in 1..Len(roster) : enemigo[roster[i]].vivo /\ roster[i] \in toca}

\* the least element of a non-empty set of positions
Menor(S) == CHOOSE i \in S : \A j \in S : i <= j

\* C22 as stated: in a tick the first living roster enemy that overlaps
\* the player becomes current and the state becomes Combat; the enemies
\* after it are not visited and every non-colliding enemy stays in the
\* roster unchanged.
C22_Original ==
    [][\A toca \in SUBSET Elementos(roster) :
          (/\ jugador.id # 0 /\ JugandoUpdate(toca)
           /\ VivosTocados(toca) # {})
          => LET k == Menor(VivosTocados(toca))
             IN  /\ estado' = "combate" /\ enemigo_actual' = roster[k]
                 /\ \A i \in (k + 1)..Len(roster) :
                       roster[i] \in Elementos(roster')
                 /\ \A e \in Elementos(roster) \ toca :
                       /\ e \in Elementos(roster')
                       /\ enemigo'[e] = enemigo[e]]_vars

\* C22: in a tick the first living roster enemy, in roster order, that
\* overlaps the player becomes current and the state becomes Combat in
\* that tick; the enemies after it are not visited and stay; every living
\* enemy stays in the roster; no enemy is changed; the dead enemies before
\* the encountered one are removed.
C22_PrimerEncuentro ==
    [][\A toca \in SUBSET Elementos(roster) :
          (/\ jugador.id # 0 /\ JugandoUpdate(toca)
           /\ VivosTocados(toca) # {})
          => LET k == Menor(VivosTocados(toca))
             IN  /\ estado' = "combate" /\ enemigo_actual' = roster[k]
                 /\ enemigo' = enemigo
                 /\ roster' = SelectSeq(roster,
                                 LAMBDA e : enemigo[e].vivo \/ Pos(e) > k)]_vars

\* C22 witness: both enemies of the roster, alive, overlapped the player
\* in the tick; the first is the current enemy and both are in the roster.
C22_Witness ==
    /\ estado = "combate" /\ ult.hooks = Salto("jugando", "combate")
    /\ Len(roster) = 2 /\ ult.toca = {roster[1], roster[2]}
    /\ enemigo_actual = roster[1]
    /\ enemigo[roster[1]].vivo /\ enemigo[roster[2]].vivo

\* C27 as stated: at the end of every Exploring tick the roster holds no
\* dead enemy, a tick that starts a combat included.
C27_Original ==
    [][\A toca \in SUBSET Elementos(roster) :
          (jugador.id # 0 /\ JugandoUpdate(toca))
          => \A e \in Elementos(roster') : enemigo'[e].vivo]_vars

\* C27: at the end of an Exploring tick that starts no combat the roster
\* holds no dead enemy; a tick that starts a combat removes the dead
\* enemies that precede the encountered one in roster order and leaves
\* those after it; no tick removes a living enemy.
C27_SinMuertos ==
    [][\A toca \in SUBSET Elementos(roster) :
          (jugador.id # 0 /\ JugandoUpdate(toca))
          => /\ \A e \in Elementos(roster) :
                   enemigo[e].vivo => e \in Elementos(roster')
             /\ IF estado' = "jugando"
                THEN \A e \in Elementos(roster') : enemigo'[e].vivo
                ELSE \A e \in Elementos(roster) :
                        ~enemigo[e].vivo =>
                           (e \in Elementos(roster')
                               <=> Pos(e) > Pos(enemigo_actual'))]_vars

\* C27 witness: a tick started a combat with the first enemy of the
\* roster and the dead enemy after it is still in the roster.
C27_Witness ==
    /\ estado = "combate" /\ ult.hooks = Salto("jugando", "combate")
    /\ Len(roster) = 2 /\ enemigo_actual = roster[1]
    /\ ~enemigo[roster[2]].vivo

\* a click on the attack button or on the item button, in a combat whose
\* outcome is unset
ClickAccion == (\E critico \in BOOLEAN : CombateAtacar(critico))
               \/ CombateUsarObjeto

\* C28: while the combat is in the animation delay or in the enemy's
\* turn, a click on Attack or on Use-Item changes nothing: the hp of both
\* combatants, the inventory, the message, the turn flag and the running
\* delay are as before.
C28_ClickSinEfecto ==
    [][(/\ estado = "combate" /\ combate.resultado = "None"
        /\ (combate.animando \/ ~combate.turno_jugador)
        /\ ClickAccion)
       => /\ jugador' = jugador /\ enemigo' = enemigo
          /\ combate' = combate
          /\ estado' = estado /\ enemigo_actual' = enemigo_actual]_vars

\* C28 witness: a click came right after the player's attack: the delay
\* that attack started is still at its start and no call was made.
C28_Witness ==
    /\ estado = "combate" /\ combate.animando /\ combate.turno_jugador
    /\ combate.mensaje.texto = "ataque_jugador"
    /\ combate.timer.active /\ combate.timer.elapsed = 0
    /\ ult = NoLlamada

\* the fields of the player that the combat changes
Ficha(p) == <<p.hp, p.hp_max, p.atk, p.defensa, p.nivel, p.experiencia,
              p.oro, p.inventario>>

\* C29: once the outcome is victoria or derrota, no step taken in Combat
\* (tick or click) changes the hp of the player or of an enemy, the
\* player's experience, gold, level or inventory, or the outcome; the
\* acknowledging click changes none of them either.
C29_Terminal ==
    [][(estado = "combate" /\ combate.resultado # "None")
       => /\ Ficha(jugador') = Ficha(jugador)
          /\ jugador' = jugador /\ enemigo' = enemigo
          /\ combate'.resultado = combate.resultado]_vars

\* C29 witness: a tick came after the victory: the reward call is no
\* longer the last call, and the gold is the gold of one reward.
C29_Witness ==
    /\ estado = "combate" /\ combate.resultado = "victoria"
    /\ ult = NoLlamada
    /\ jugador.oro = OroInicial + enemigo[enemigo_actual].recompensa.oro

\* C30: the hp, hp_max, atk, defensa, nivel, experiencia, oro and
\* inventario of a created player change only in steps taken while Combat
\* is the active state: every tick and input handled by the menu,
\* Exploring, the inventory, the pause and GameOver leaves them as they
\* are.
C30_SoloEnCombate ==
    [][(/\ jugador.id # 0
        /\ estado \in {"menu", "jugando", "inventario", "pausa", "gameover"})
       => Ficha(jugador') = Ficha(jugador)]_vars

\* C30 witness: a player who was hurt and rewarded in a combat closed the
\* inventory and is exploring.
C30_Witness ==
    /\ estado = "jugando" /\ ult.hooks = Salto("inventario", "jugando")
    /\ jugador.oro > OroInicial /\ jugador.hp < jugador.hp_max
    /\ Len(jugador.inventario) = 1

---------------------------------------------------------------------------
(* Mision *)

\* the mission under test
LaMision == jugador.misiones[1]

\* (kind, target) is part of the requirement map of m
EnRequisitos(m, tipo, objetivo) ==
    /\ tipo \in DOMAIN m.requisitos
    /\ objetivo \in DOMAIN m.requisitos[tipo]

\* every requirement of m has its count in progreso
RequisitosAlcanzados(m) ==
    \A tipo \in DOMAIN m.requisitos :
        \A objetivo \in DOMAIN m.requisitos[tipo] :
            /\ tipo \in DOMAIN m.progreso
            /\ objetivo \in DOMAIN m.progreso[tipo]
            /\ m.progreso[tipo][objetivo] >= m.requisitos[tipo][objetivo]

\* C23: in every reachable state, completada is true if and only if every
\* (kind, target) of requisitos has progreso[kind][target] >= its count,
\* right after construction and for empty or zero-count requisitos too.
\* Mision.__init__ sets completada = False without looking at requisitos,
\* so the equivalence fails until the first call that counts.
C23_Completada ==
    \A i \in 1..Len(jugador.misiones) :
        jugador.misiones[i].completada
            <=> RequisitosAlcanzados(jugador.misiones[i])

\* C24: over any sequence of actualizar_progreso calls no progress counter
\* decreases (and none appears or disappears), and completada never goes
\* from true back to false, so it turns true at most once.
C24_Monotona ==
    [][\A i \in 1..Len(jugador.misiones) :
         LET m == jugador.misiones[i]
             n == jugador'.misiones[i] IN
         /\ DOMAIN n.progreso = DOMAIN m.progreso
         /\ \A tipo \in DOMAIN m.progreso :
               /\ DOMAIN n.progreso[tipo] = DOMAIN m.progreso[tipo]
               /\ \A objetivo \in DOMAIN m.progreso[tipo] :
                     n.progreso[tipo][objetivo] >= m.progreso[tipo][objetivo]
         /\ m.completada => n.completada]_vars

\* a call has counted on a mission that was already completed
C24_Witness ==
    /\ Len(jugador.misiones) = 1
    /\ LaMision.completada
    /\ ult.op = "actualizar_progreso" /\ ult.ret = 1
    /\ LaMision.progreso[ult.args[1]][ult.args[2]]
           > LaMision.requisitos[ult.args[1]][ult.args[2]] + 1

---------------------------------------------------------------------------
(* The animation delay *)

\* a delay is running: an action was chosen and is not yet resolved
EnCurso == estado = "combate" /\ combate.animando

\* the step leaves the delay running: same turn, no outcome, the timer
\* still counting from where it was, the entities as they were
SigueEnCurso ==
    /\ combate'.animando /\ combate'.resultado = "None"
    /\ combate'.turno_jugador = combate.turno_jugador
    /\ combate'.timer.active
    /\ combate'.timer.elapsed >= combate.timer.elapsed
    /\ jugador' = jugador /\ enemigo' = enemigo

\* the step ends in the enemy's attack, with its own delay started
AtaqueEnemigoPaso ==
    /\ ult'.op = "enemigo_atacar"
    /\ combate'.animando /\ ~combate'.turno_jugador
    /\ combate'.timer.active /\ combate'.timer.elapsed = 0

\* how many of the four resolutions the step ends in
Resoluciones ==
    (IF combate'.resultado = "victoria" THEN 1 ELSE 0)
    + (IF combate'.resultado = "derrota" THEN 1 ELSE 0)
    + (IF AtaqueEnemigoPaso THEN 1 ELSE 0)
    + (IF PlayerTurn' THEN 1 ELSE 0)

\* C26: while update keeps being called in combat, every animation delay
\* expires: the player's action is followed by an outcome or by the
\* enemy's attack, the enemy's attack by an outcome or by PlayerTurn.  A
\* step taken while a delay runs stays in combat and either leaves the
\* delay running or is its expiry, and the expiry ends in exactly one of
\* victoria, derrota, the enemy's attack, PlayerTurn.
C26_Resolucion ==
    /\ [][EnCurso =>
             /\ estado' = "combate"
             /\ IF ExpiraPaso THEN Resoluciones = 1 ELSE SigueEnCurso]_vars
    /\ (EnCurso /\ combate.turno_jugador)
          ~> (estado = "combate"
              /\ \/ combate.resultado # "None"
                 \/ combate.animando /\ ~combate.turno_jugador)
    /\ (EnCurso /\ ~combate.turno_jugador)
          ~> (combate.resultado # "None" \/ PlayerTurn)

\* the delay of the player's action has expired into the enemy's attack,
\* whose own delay has just started
C26_Witness ==
    /\ EnCurso /\ ~combate.turno_jugador
    /\ ult.op = "enemigo_atacar"
    /\ combate.timer.active /\ combate.timer.elapsed = 0

---------------------------------------------------------------------------
(* Transition targets *)

\* C31: every change_state call of a run asks for one of the seven states
\* registered in Game.states, so the lookup self.states[new_state] never
\* misses; the declared tag "victoria", which has no State object, is
\* never asked for (a victory goes back to jugando).
C31_DestinoRegistrado ==
    /\ estado \in GameStates
    /\ \A i \in 1..Len(ult.hooks) :
          /\ ult.hooks[i].de \in GameState
          /\ ult.hooks[i].de # "victoria"
          /\ ult.hooks[i].hook = "enter" => ult.hooks[i].de \in GameStates

\* a victory has been acknowledged: the handler asked for jugando
C31_Witness ==
    /\ estado = "jugando"
    /\ ult.hooks = Salto("combate", "jugando")
    /\ combate.resultado = "victoria"
    /\ "victoria" \in GameState \ GameStates

---------------------------------------------------------------------------
(* The player reference *)

\* C32 as stated: the player is there in jugando, inventario, pausa and
\* combate, alive in the first three, and a dead player is only ever seen
\* in combat with the outcome derrota and in gameover.
C32_Original ==
    /\ estado \in {"jugando", "inventario", "pausa", "combate"}
          => jugador.id # 0
    /\ estado \in {"jugando", "inventario", "pausa"} => jugador.vivo
    /\ (jugador.id # 0 /\ ~jugador.vivo)
          => \/ estado = "combate" /\ combate.resultado = "derrota"
             \/ estado = "gameover"

\* C32: while the active state is jugando, inventario, pausa or combate
\* Game.jugador is not None, and in jugando, inventario and pausa that
\* player is alive (vivo, hp > 0).  In combat a dead player is seen only
\* with the outcome derrota or during the delay of the enemy's attack that
\* leads to it.
C32_JugadorPresente ==
    /\ estado \in {"jugando", "inventario", "pausa", "combate"}
          => jugador.id # 0
    /\ estado \in {"jugando", "inventario", "pausa"}
          => jugador.vivo /\ jugador.hp > 0
    /\ (estado = "combate" /\ ~jugador.vivo)
          => \/ combate.resultado = "derrota"
             \/ /\ combate.resultado = "None"
                /\ combate.animando /\ ~combate.turno_jugador

\* the second character of the run has just been killed by the enemy's
\* attack: the delay runs and the outcome is not set yet
C32_Witness ==
    /\ estado = "combate"
    /\ jugador.id = 2 /\ ~jugador.vivo /\ jugador.hp = 0
    /\ combate.resultado = "None"
    /\ combate.animando /\ ~combate.turno_jugador

---------------------------------------------------------------------------
(* The enemy of a combat *)

\* C33: at every transition into Combat the current enemy is alive, with
\* hp > 0, also when the player's rect overlaps a defeated enemy that is
\* still in the roster.
C33_EnemigoVivo ==
    [][(estado # "combate" /\ estado' = "combate")
       => /\ enemigo_actual' \in DOMAIN enemigo'
          /\ enemigo'[enemigo_actual'].vivo
          /\ enemigo'[enemigo_actual'].hp > 0
          /\ \A e \in ult'.toca :
                ~enemigo[e].vivo => e # enemigo_actual']_vars

\* Combat was entered on a tick in which the player also overlapped a
\* defeated enemy of the roster
C33_Witness ==
    /\ estado = "combate" /\ ult.hooks = Salto("jugando", "combate")
    /\ enemigo[enemigo_actual].vivo
    /\ \E e \in ult.toca : ~enemigo[e].vivo /\ e \in Elementos(dejado.roster)

---------------------------------------------------------------------------
(* The two outcomes *)

\* the outcome tests of CombateState.update taken in the other order
FinAlReves(p, e) ==
    IF ~e.vivo THEN "victoria"
    ELSE IF ~p.vivo THEN "derrota"
    ELSE "None"

\* C34: in every state of a combat the player and the current enemy are
\* not both dead, so at most one of the conditions of victoria and derrota
\* holds and testing them in the other order gives the same outcome.
C34_NoAmbosMuertos ==
    estado = "combate"
    => /\ enemigo_actual \in DOMAIN enemigo
       /\ jugador.vivo \/ enemigo[enemigo_actual].vivo
       /\ jugador.hp > 0 \/ enemigo[enemigo_actual].hp > 0
       /\ FinAlReves(jugador, enemigo[enemigo_actual])
             = ResultadoFin(jugador, enemigo[enemigo_actual])

\* the delay of the enemy's attack has expired on a dead player: the
\* outcome is derrota, and the enemy, hurt before, is alive
C34_Witness ==
    /\ estado = "combate" /\ combate.resultado = "derrota"
    /\ ~jugador.vivo /\ ~combate.animando
    /\ enemigo[enemigo_actual].vivo
    /\ enemigo[enemigo_actual].hp < enemigo[enemigo_actual].hp_max

---------------------------------------------------------------------------
(* Experience *)

\* C35: between the handlers of a run (update resolves a delay expiry in
\* one call), in Combat and in every other state, the player's experience
\* is at least 0 and strictly below nivel * 100.
C35_Experiencia ==
    jugador.id # 0
    => /\ jugador.experiencia >= 0
       /\ jugador.experiencia < jugador.nivel * 100
       /\ jugador.nivel >= 1

\* back on the map after the victory that took the player to level 2:
\* the reward reached the threshold and the experience was reset
C35_Witness ==
    /\ estado = "jugando" /\ ult.hooks = Salto("combate", "jugando")
    /\ jugador.nivel = 2 /\ jugador.experiencia = 0
    /\ jugador.oro > OroInicial

---------------------------------------------------------------------------
(* The roster over a whole run *)

\* the victories of the run so far: the rewards the first i enemies gave
RECURSIVE VictoriasHasta(_)
VictoriasHasta(i) ==
    IF i = 0 THEN 0 ELSE enemigo[i].premios + VictoriasHasta(i - 1)

Victorias == VictoriasHasta(Len(enemigo))

\* C36: over a whole run, new characters after GameOver or after
\* pausa -> menu included, the roster is created once, with NumEnemigos
\* enemies (5 in the code), and never gains an enemy afterwards; so the
\* run has at most NumEnemigos victories, and once the roster is empty
\* Combat is never entered again.
C36_RosterFinito ==
    /\ ~mundo /\ roster = << >>
    /\ [](Victorias <= NumEnemigos)
    /\ []((mundo /\ roster = << >>) => estado # "combate")
    /\ [][/\ (~mundo /\ mundo')
               => Len(roster') = NumEnemigos /\ Len(enemigo') = NumEnemigos
          /\ mundo
               => /\ mundo'
                  /\ Len(enemigo') = Len(enemigo)
                  /\ Len(roster') <= Len(roster)
                  /\ Elementos(roster') \subseteq Elementos(roster)
          /\ (mundo /\ roster = << >>) => estado' # "combate"]_vars

\* the second character of the run stands on a map left without enemies,
\* every enemy of the one roster beaten once
C36_Witness ==
    /\ estado = "jugando" /\ jugador.id = 2
    /\ mundo /\ roster = << >>
    /\ Victorias = NumEnemigos

---------------------------------------------------------------------------
(* The end of a combat *)

\* C37: with a player who attacks at every PlayerTurn and an update that
\* keeps being called, every combat reaches victoria or derrota: each
\* attack of the player takes at least 1 hp from the enemy, whose hp is
\* finite and is never restored.
C37_CombateTermina ==
    /\ [][/\ \A critico \in BOOLEAN :
               (PlayerTurn /\ CombateAtacar(critico))
               => /\ enemigo[enemigo_actual].hp >= 1
                  /\ enemigo'[enemigo_actual].hp
                        <= enemigo[enemigo_actual].hp - 1
          /\ (estado = "combate" /\ estado' = "combate")
               => enemigo'[enemigo_actual].hp <= enemigo[enemigo_actual].hp
         ]_vars
    /\ (estado = "combate" /\ combate.resultado = "None")
          ~> (estado = "combate"
              /\ combate.resultado \in {"victoria", "derrota"})

\* a combat fought by attacks alone has ended in victoria, after at least
\* one attack of the enemy
C37_Witness ==
    /\ estado = "combate" /\ combate.resultado = "victoria"
    /\ ~enemigo[enemigo_actual].vivo
    /\ jugador.hp < jugador.hp_max
    /\ Len(jugador.inventario) = PocionesIniciales

---------------------------------------------------------------------------
(* The confirmation of a character *)

\* C38: a click on the confirm button with a name typed and a class
\* selected creates a new Jugador with the base stats of that class and
\* two healing potions and goes to jugando; with an empty name or no class
\* it leaves the active state and Game.jugador as they were.  Nothing else
\* leaves creacion.
C38_Confirmar ==
    [][/\ CreacionConfirmar
          => IF creacion.nombre > 0 /\ creacion.clase \in NombresClase
             THEN /\ estado' = "jugando"
                  /\ jugador'.id # jugador.id /\ jugador'.id # 0
                  /\ jugador'.clase = creacion.clase
                  /\ jugador'.hp = CLASES[creacion.clase].hp
                  /\ jugador'.hp_max = CLASES[creacion.clase].hp
                  /\ jugador'.atk = CLASES[creacion.clase].atk
                  /\ jugador'.defensa = CLASES[creacion.clase].defensa
                  /\ jugador'.nivel = 1 /\ jugador'.vivo
                  /\ Len(jugador'.inventario) = 2
                  /\ \A i \in 1..2 :
                        /\ jugador'.inventario[i].tipo = "consumible"
                        /\ NombreCura(jugador'.inventario[i].nombre)
                        /\ jugador'.inventario[i].modificador = 20
             ELSE estado' = "creacion" /\ jugador' = jugador
       /\ (estado = "creacion" /\ estado' # "creacion")
          => /\ CreacionConfirmar
             /\ creacion.nombre > 0 /\ creacion.clase \in NombresClase
       /\ jugador'.id # jugador.id => estado = "creacion"]_vars

\* a Mago has just been confirmed: on the map with 80 hp and two potions
C38_Witness ==
    /\ estado = "jugando" /\ ult.hooks = Salto("creacion", "jugando")
    /\ jugador.clase = "Mago" /\ jugador.hp = 80
    /\ Len(jugador.inventario) = 2
    /\ creacion.nombre > 0

===========================================================================
